---- MODULE Spec2Model ----
(***************************************************************************)
(* Model of the API-key rotation manager and the retrying wrappers of      *)
(* src/src/helper.py (GoogleAPIKeyManager, get_embeddings, get_llm,        *)
(* get_conversational_chain, generate_quiz).                               *)
(*                                                                         *)
(* Indices are 0-based as in the Python source; keys is a TLA+ sequence,   *)
(* so the credential at index i is keys[i + 1].                            *)
(***************************************************************************)
EXTENDS Integers, Sequences, FiniteSets, TLC

(* ------------------------------ bounds -------------------------------- *)

\* time.time() is observed on a grid: StartTime at the first call, then up to
\* MaxTicks steps of TimeStep seconds
TimeStep == 30
StartTime == 60
MaxTicks == 2
\* largest max_retries argument a caller passes
MaxRetries == 2
\* depth at which the unbounded recursion of get_embeddings is cut (RecursionError)
RecursionLimit == 6
\* successful rotations are counted up to this number
MaxRotations == 3
\* threads that share the module-level key_manager
NumCallers == 2
\* answers to one question are counted up to this number
MaxAnswers == 2

(* ------------------------- program constants -------------------------- *)

\* self.rotation_cooldown = 60
ROTATION_COOLDOWN == 60
\* max_retries: int = 3
DEFAULT_MAX_RETRIES == 3
\* the three os.getenv entries of self.keys
NUM_KEYS == 3
\* key[-6] needs a string of at least 6 characters
LOG_SUFFIX_LEN == 6

(* ----------------------------- credentials ---------------------------- *)

\* os.getenv gives None for an unset variable; None is falsy at the
\* "if not current_key" tests
NoKey == "<None>"
\* one credential shorter than LOG_SUFFIX_LEN characters, two longer ones
Credentials == {"abc", "AIzaSy-A", "AIzaSy-B"}

KeyLen(k) == IF k = "abc" THEN 3 ELSE 8

\* the list built by __init__ (three entries, unset ones None), or a
\* one-element list assigned to key_manager.keys
Pools ==
    { <<"abc", "AIzaSy-A", "AIzaSy-B">>,     \* three distinct credentials
      <<"AIzaSy-A", "abc", "AIzaSy-B">>,
      <<"AIzaSy-A", "AIzaSy-A", "AIzaSy-B">>, \* a duplicate
      <<"AIzaSy-A", NoKey, NoKey>>,           \* only GOOGLE_API_KEY_1 set
      <<NoKey, "AIzaSy-A", "AIzaSy-B">>,      \* GOOGLE_API_KEY_1 unset
      <<NoKey, NoKey, NoKey>>,                \* no variable set
      <<"AIzaSy-A">>,                         \* a list of one credential
      <<"abc">> }
Cooldowns == {0, ROTATION_COOLDOWN}

MaxTime == StartTime + MaxTicks * TimeStep
Times == {StartTime + n * TimeStep : n \in 0..MaxTicks}
\* a later reading of the clock inside one call
LaterTimes(t) == {t2 \in Times : t2 = t \/ t2 = t + TimeStep}

VARIABLES
    keys,                 \* self.keys
    current_key_index,    \* self.current_key_index
    failed_keys,          \* self.failed_keys
    quota_exceeded_keys,  \* self.quota_exceeded_keys
    last_rotation_time,   \* self.last_rotation_time
    rotation_cooldown,    \* self.rotation_cooldown
    now,                  \* time.time()
    call,                 \* the last direct call of a manager method
    op,                   \* the wrapped operation in flight
    rotation_count,       \* the rotations since construction, counted in LifeSpec
    callers,              \* callers inside mark_failed at the same time
    session,              \* st.session_state of app.py
    rerun                 \* the last run of main() of app.py

vars == <<keys, current_key_index, failed_keys, quota_exceeded_keys,
          last_rotation_time, rotation_cooldown, now, call, op, rotation_count,
          callers, session, rerun>>

\* what the calls made one after the other leave alone
otherVars == <<callers, session, rerun>>

poolVars == <<current_key_index, failed_keys, quota_exceeded_keys, last_rotation_time>>

(* --------------------------- GoogleAPIKeyManager ----------------------- *)

\* mutant: the first entry is returned whatever the index
KeyAtFirst(ks, idx) == IF Len(ks) = 0 THEN NoKey ELSE ks[1]
\* get_current_key: None for an empty list, else keys[current_key_index]
KeyAt(ks, idx) == IF Len(ks) = 0 THEN NoKey ELSE ks[idx + 1]

get_current_key == KeyAt(keys, current_key_index)

\* the test of lines 54-55
\* mutant: the quota set is not consulted
IsEligibleFailedOnly(k, failed, quota) == k \notin failed
IsEligible(k, failed, quota) == k \notin failed /\ k \notin quota

\* the guard of line 44
CooldownActive(t, last, cooldown) == t - last < cooldown

\* the while loop of lines 49-58, entered with current_key_index = i
RECURSIVE ScanFrom(_, _, _, _)
ScanFrom(i, original, failed, quota) ==
    LET nxt == (i + 1) % Len(keys) IN
    IF nxt = original
    THEN [found |-> FALSE, index |-> nxt]
    ELSE IF IsEligible(keys[nxt + 1], failed, quota)
         THEN [found |-> TRUE, index |-> nxt]
         ELSE ScanFrom(nxt, original, failed, quota)

\* rotate_key called at time t; t2 is the clock reading of line 57
\* mutant: an exhausted scan leaves the index one position further
RotateKeyLeavesIndex(idx, failed, quota, last, t, t2) ==
    IF CooldownActive(t, last, rotation_cooldown)
    THEN [ret |-> FALSE, index |-> idx, last |-> last, time |-> t]
    ELSE LET s == ScanFrom(idx, idx, failed, quota) IN
         IF s.found
         THEN [ret |-> TRUE, index |-> s.index, last |-> t2, time |-> t2]
         ELSE [ret |-> FALSE, index |-> (idx + 1) % Len(keys), last |-> last, time |-> t]
\* mutant: a successful rotation does not record its time
RotateKeyNoStamp(idx, failed, quota, last, t, t2) ==
    IF CooldownActive(t, last, rotation_cooldown)
    THEN [ret |-> FALSE, index |-> idx, last |-> last, time |-> t]
    ELSE LET s == ScanFrom(idx, idx, failed, quota) IN
         [ret |-> s.found, index |-> s.index, last |-> last, time |-> t]
\* mutant: the index found is not taken modulo the length of keys
RotateKeyNoWrap(idx, failed, quota, last, t, t2) ==
    IF CooldownActive(t, last, rotation_cooldown)
    THEN [ret |-> FALSE, index |-> idx, last |-> last, time |-> t]
    ELSE LET s == ScanFrom(idx, idx, failed, quota) IN
         IF s.found
         THEN [ret |-> TRUE, last |-> t2, time |-> t2,
               index |-> IF s.index < idx THEN s.index + Len(keys) ELSE s.index]
         ELSE [ret |-> FALSE, index |-> s.index, last |-> last, time |-> t]
\* mutant: every call that passes the cooldown guard records its time
RotateKeyStampsAlways(idx, failed, quota, last, t, t2) ==
    IF CooldownActive(t, last, rotation_cooldown)
    THEN [ret |-> FALSE, index |-> idx, last |-> last, time |-> t]
    ELSE LET s == ScanFrom(idx, idx, failed, quota) IN
         [ret |-> s.found, index |-> s.index, last |-> t2, time |-> t2]
RotateKeyResult(idx, failed, quota, last, t, t2) ==
    IF CooldownActive(t, last, rotation_cooldown)
    THEN [ret |-> FALSE, index |-> idx, last |-> last, time |-> t]
    ELSE LET s == ScanFrom(idx, idx, failed, quota) IN
         IF s.found
         THEN [ret |-> TRUE, index |-> s.index, last |-> t2, time |-> t2]
         ELSE [ret |-> FALSE, index |-> s.index, last |-> last, time |-> t]

\* key[-6] of line 67 raises IndexError on a string shorter than 6; the
\* slice key[-6:] of line 64 never raises
LogRaises(key, is_quota_error) == ~is_quota_error /\ KeyLen(key) < LOG_SUFFIX_LEN

\* mutant: the marked key is recorded, the rotation of lines 69-70 is left out
MarkFailedNoRotate(key, is_quota_error, idx, failed, quota, last, t, t2) ==
    [raised |-> IF LogRaises(key, is_quota_error) THEN "IndexError" ELSE "none",
     rotate |-> "not called",
     failed |-> IF is_quota_error THEN failed ELSE failed \cup {key},
     quota |-> IF is_quota_error THEN quota \cup {key} ELSE quota,
     index |-> idx, last |-> last, time |-> t]
\* mutant: marking a key as failed clears it from the quota set and conversely
MarkFailedMovesKey(key, is_quota_error, idx, failed, quota, last, t, t2) ==
    LET f2 == IF is_quota_error THEN failed \ {key} ELSE failed \cup {key}
        q2 == IF is_quota_error THEN quota \cup {key} ELSE quota \ {key}
    IN  IF LogRaises(key, is_quota_error)
        THEN [raised |-> "IndexError", rotate |-> "not called", failed |-> f2,
              quota |-> q2, index |-> idx, last |-> last, time |-> t]
        ELSE IF key = KeyAt(keys, idx)
        THEN LET r == RotateKeyResult(idx, f2, q2, last, t, t2) IN
             [raised |-> "none", rotate |-> IF r.ret THEN "True" ELSE "False",
              failed |-> f2, quota |-> q2, index |-> r.index, last |-> r.last,
              time |-> r.time]
        ELSE [raised |-> "none", rotate |-> "not called", failed |-> f2,
              quota |-> q2, index |-> idx, last |-> last, time |-> t]
\* mutant: the key is added to both sets
MarkFailedBothSets(key, is_quota_error, idx, failed, quota, last, t, t2) ==
    LET f2 == failed \cup {key}
        q2 == quota \cup {key}
    IN  IF LogRaises(key, is_quota_error)
        THEN [raised |-> "IndexError", rotate |-> "not called", failed |-> f2,
              quota |-> q2, index |-> idx, last |-> last, time |-> t]
        ELSE IF key = KeyAt(keys, idx)
        THEN LET r == RotateKeyResult(idx, f2, q2, last, t, t2) IN
             [raised |-> "none", rotate |-> IF r.ret THEN "True" ELSE "False",
              failed |-> f2, quota |-> q2, index |-> r.index, last |-> r.last,
              time |-> r.time]
        ELSE [raised |-> "none", rotate |-> "not called", failed |-> f2,
              quota |-> q2, index |-> idx, last |-> last, time |-> t]
\* mark_failed(key, is_quota_error) called at time t
MarkFailedResult(key, is_quota_error, idx, failed, quota, last, t, t2) ==
    LET f2 == IF is_quota_error THEN failed ELSE failed \cup {key}
        q2 == IF is_quota_error THEN quota \cup {key} ELSE quota
    IN  IF LogRaises(key, is_quota_error)
        THEN [raised |-> "IndexError", rotate |-> "not called", failed |-> f2,
              quota |-> q2, index |-> idx, last |-> last, time |-> t]
        ELSE IF key = KeyAt(keys, idx)
        THEN LET r == RotateKeyResult(idx, f2, q2, last, t, t2) IN
             [raised |-> "none", rotate |-> IF r.ret THEN "True" ELSE "False",
              failed |-> f2, quota |-> q2, index |-> r.index, last |-> r.last,
              time |-> r.time]
        ELSE [raised |-> "none", rotate |-> "not called", failed |-> f2,
              quota |-> q2, index |-> idx, last |-> last, time |-> t]

\* every entry of keys is in failed_keys or quota_exceeded_keys
AllExcluded ==
    \A i \in 1..Len(keys) : keys[i] \in failed_keys \cup quota_exceeded_keys

(* ------------------------------ records -------------------------------- *)

NoCall == [name |-> "none"]

\* what a call keeps of the call before it: the call itself, without its own
\* predecessor, when it is a call of the method `name`
Before(c, name) ==
    IF c.name = name THEN [f \in DOMAIN c \ {"prev"} |-> c[f]] ELSE NoCall

\* the rotations that returned True so far: their number, counted up to
\* MaxRotations, whether one of them was a call of rotate_key from outside
\* mark_failed, and whether the last call made one
NoRotations == [total |-> 0, direct |-> FALSE, rotated |-> FALSE]

Counted(c, success, is_direct) ==
    IF success
    THEN [total |-> IF c.total < MaxRotations THEN c.total + 1 ELSE c.total,
          direct |-> c.direct \/ is_direct,
          rotated |-> TRUE]
    ELSE [c EXCEPT !.rotated = FALSE]

\* a thread that has not called mark_failed yet
Callers == 1..NumCallers

IdleCaller ==
    [pc |-> "idle", key |-> NoKey, is_quota_error |-> FALSE, original_index |-> 0,
     next_index |-> 0, ret |-> "none", raised |-> "none"]

\* the text box of app.py: empty, or one of two questions
NoQuestion == ""
Questions == {"q1", "q2"}
\* None as the value of a session field
NoValue == "<None>"

\* lines 21-34 of app.py; conversation and raw_text are kept as "is set" and
\* "is not empty", the fields that are only displayed are left out
NewSession ==
    [conversation |-> FALSE, raw_text |-> FALSE, mode |-> NoValue,
     last_question |-> NoValue, quiz_generated |-> FALSE]

\* no run of main() yet
NoRerun ==
    [question |-> NoQuestion, button |-> "none", sent |-> FALSE, answered |-> FALSE,
     processed |-> FALSE, before |-> NewSession, quiz_pending_before |-> FALSE,
     quiz_pending |-> FALSE, answered_same |-> 0, answered_since_docs |-> 0]

\* no wrapper has been called yet
IdleOp ==
    [name |-> "none", pc |-> "idle", budget |-> 0, max_retries |-> 0,
     llm_retries |-> 0, depth |-> 0, probes |-> 0, llm_calls |-> 0, invokes |-> 0,
     no_key_errors |-> 0, rotate_calls |-> 0, rotations |-> 0,
     last_failure |-> "none", outcome |-> "none", trace |-> <<>>, fresh |-> TRUE,
     current_key |-> NoKey, client_key |-> NoKey, failed_key |-> NoKey]

Idle == op.pc \in {"idle", "done"}

(* ------------------------------- Init ---------------------------------- *)

Init ==
    /\ keys \in Pools
    /\ current_key_index = 0
    /\ failed_keys = {}
    /\ quota_exceeded_keys = {}
    /\ last_rotation_time = 0
    /\ rotation_cooldown \in Cooldowns
    /\ now = StartTime
    /\ call = NoCall
    /\ op = IdleOp
    /\ rotation_count = NoRotations
    /\ callers = [c \in Callers |-> IdleCaller]
    /\ session = NewSession
    /\ rerun = NoRerun

(* ------------------------- direct manager calls ------------------------ *)

Tick ==
    /\ now + TimeStep <= MaxTime
    /\ now' = now + TimeStep
    /\ UNCHANGED <<keys, otherVars, poolVars, rotation_cooldown, call, op, rotation_count>>

GetCurrentKey ==
    /\ call' = [name |-> "get_current_key", time |-> now, ret_key |-> get_current_key,
                prev |-> Before(call, "mark_failed")]
    /\ UNCHANGED <<keys, otherVars, poolVars, rotation_cooldown, now, op, rotation_count>>

RotateKey ==
    /\ \E t2 \in LaterTimes(now) :
        LET r == RotateKeyResult(current_key_index, failed_keys, quota_exceeded_keys,
                                 last_rotation_time, now, t2)
        IN  /\ current_key_index' = r.index
            /\ last_rotation_time' = r.last
            /\ now' = r.time
            /\ call' = [name |-> "rotate_key", time |-> now, ret |-> r.ret,
                        from |-> current_key_index,
                        exhausted |-> AllExcluded,
                        moved |-> (r.index # current_key_index
                                   \/ r.last # last_rotation_time),
                        prev |-> Before(call, "rotate_key")]
    /\ UNCHANGED <<keys, otherVars, failed_keys, quota_exceeded_keys, rotation_cooldown, op,
                   rotation_count>>

MarkFailed ==
    /\ \E key \in Credentials, is_quota_error \in BOOLEAN, t2 \in LaterTimes(now) :
        LET m == MarkFailedResult(key, is_quota_error, current_key_index, failed_keys,
                                  quota_exceeded_keys, last_rotation_time, now, t2)
        IN  /\ failed_keys' = m.failed
            /\ quota_exceeded_keys' = m.quota
            /\ current_key_index' = m.index
            /\ last_rotation_time' = m.last
            /\ now' = m.time
            /\ call' = [name |-> "mark_failed", time |-> now, key |-> key,
                        is_quota_error |-> is_quota_error,
                        current |-> (key = get_current_key),
                        cooldown |-> CooldownActive(now, last_rotation_time,
                                                    rotation_cooldown),
                        raised |-> m.raised, rotate |-> m.rotate]
    /\ UNCHANGED <<keys, otherVars, rotation_cooldown, op, rotation_count>>

(* --------------------------- wrapped operations ------------------------ *)

Failures == {"ResourceExhausted", "Exception"}

\* GoogleGenerativeAIEmbeddings(model=...) at line 100 is given no
\* google_api_key: the client works with whatever the library finds itself
NotPassed == "<not passed>"

\* a call of one of the wrappers; max_retries is the wrapper's own argument,
\* llm_retries the max_retries of the get_llm call in flight; current_key is
\* the local variable of the last attempt that reached the provider,
\* client_key the credential its client was constructed with, failed_key the
\* credential of the client whose call failed last
NewOp(name, n) ==
    [name |-> name,
     pc |-> IF name = "get_embeddings" THEN "get_embeddings" ELSE "get_llm",
     budget |-> n,
     max_retries |-> n,
     llm_retries |-> IF name = "get_llm" THEN n ELSE DEFAULT_MAX_RETRIES,
     depth |-> 0,
     probes |-> 0,
     llm_calls |-> IF name = "get_embeddings" THEN 0 ELSE 1,
     invokes |-> 0,
     no_key_errors |-> 0,
     rotate_calls |-> 0,
     rotations |-> 0,
     last_failure |-> "none",
     outcome |-> "none",
     trace |-> <<>>,
     fresh |-> (current_key_index = 0 /\ failed_keys = {} /\ quota_exceeded_keys = {}),
     current_key |-> NoKey,
     client_key |-> NoKey,
     failed_key |-> NoKey]

\* the attempts of a direct get_llm call are logged, those of the other wrappers not
Logged(o, key, result) ==
    IF o.name = "get_llm" THEN Append(o.trace, [key |-> key, result |-> result])
    ELSE o.trace

\* an exception leaves get_llm: to the caller for a direct call, into the
\* "except Exception" of get_conversational_chain (156-160) or generate_quiz (168-172)
AfterRaise(o, exc) ==
    IF o.name \in {"get_conversational_chain", "generate_quiz"} /\ o.max_retries > 0
    THEN [o EXCEPT !.max_retries = @ - 1, !.llm_retries = DEFAULT_MAX_RETRIES,
                   !.llm_calls = @ + 1, !.pc = "get_llm"]
    ELSE [o EXCEPT !.pc = "done", !.outcome = exc]

\* get_llm returns the probed client
AfterReturn(o) ==
    CASE o.name = "get_llm" -> [o EXCEPT !.pc = "done", !.outcome = "ok"]
      [] o.name = "get_conversational_chain" -> [o EXCEPT !.pc = "build"]
      [] o.name = "generate_quiz" -> [o EXCEPT !.pc = "invoke"]

\* lines 133-144 once mark_failed has run with result m: retry while
\* max_retries > 0, else re-raise
LlmAfterMark(o, m, exc) ==
    IF m.raised # "none" THEN AfterRaise(o, m.raised)
    ELSE IF o.llm_retries > 0 THEN [o EXCEPT !.llm_retries = @ - 1]
         ELSE AfterRaise(o, exc)

StartGetLlm ==
    /\ Idle
    /\ \E n \in 0..MaxRetries : op' = NewOp("get_llm", n)
    /\ UNCHANGED <<keys, otherVars, poolVars, rotation_cooldown, now, call, rotation_count>>

StartConversationalChain ==
    /\ Idle
    /\ \E n \in 0..MaxRetries : op' = NewOp("get_conversational_chain", n)
    /\ UNCHANGED <<keys, otherVars, poolVars, rotation_cooldown, now, call, rotation_count>>

StartGenerateQuiz ==
    /\ Idle
    /\ \E n \in 0..MaxRetries : op' = NewOp("generate_quiz", n)
    /\ UNCHANGED <<keys, otherVars, poolVars, rotation_cooldown, now, call, rotation_count>>

StartGetEmbeddings ==
    /\ Idle
    /\ op' = NewOp("get_embeddings", 0)
    /\ UNCHANGED <<keys, otherVars, poolVars, rotation_cooldown, now, call, rotation_count>>

\* get_llm, lines 120-122
LlmNoKey ==
    /\ op.pc = "get_llm"
    /\ get_current_key = NoKey
    /\ op' = AfterRaise([op EXCEPT !.no_key_errors = @ + 1], "ValueError")
    /\ UNCHANGED <<keys, otherVars, poolVars, rotation_cooldown, now, call, rotation_count>>

\* get_llm, lines 124-132
LlmProbeOk ==
    /\ op.pc = "get_llm"
    /\ get_current_key # NoKey
    /\ op' = AfterReturn([op EXCEPT !.probes = @ + 1,
                                   !.current_key = get_current_key,
                                   !.client_key = get_current_key,
                                   !.trace = Logged(op, get_current_key, "ok")])
    /\ UNCHANGED <<keys, otherVars, poolVars, rotation_cooldown, now, call, rotation_count>>

\* get_llm, lines 133-144
LlmProbeFail ==
    /\ op.pc = "get_llm"
    /\ get_current_key # NoKey
    /\ \E exc \in Failures, t2 \in LaterTimes(now) :
        LET m == MarkFailedResult(get_current_key, exc = "ResourceExhausted",
                                  current_key_index, failed_keys, quota_exceeded_keys,
                                  last_rotation_time, now, t2)
            o == [op EXCEPT !.probes = @ + 1, !.last_failure = exc,
                            !.current_key = get_current_key,
                            !.client_key = get_current_key,
                            !.failed_key = get_current_key,
                            !.rotate_calls = IF m.rotate = "not called" THEN @ ELSE @ + 1,
                            !.rotations = IF m.rotate = "True" THEN @ + 1 ELSE @,
                            !.trace = Logged(op, get_current_key, exc)]
        IN  /\ failed_keys' = m.failed
            /\ quota_exceeded_keys' = m.quota
            /\ current_key_index' = m.index
            /\ last_rotation_time' = m.last
            /\ now' = m.time
            /\ op' = LlmAfterMark(o, m, exc)
    /\ UNCHANGED <<keys, otherVars, rotation_cooldown, call, rotation_count>>

\* get_conversational_chain, lines 150-155: memory and chain are built locally
ChainBuild ==
    /\ op.pc = "build"
    /\ \/ op' = [op EXCEPT !.pc = "done", !.outcome = "ok"]
       \/ op' = AfterRaise(op, "Exception")
    /\ UNCHANGED <<keys, otherVars, poolVars, rotation_cooldown, now, call, rotation_count>>

\* generate_quiz, lines 166-167: the real request, made with the client
\* get_llm returned; its failure marks nothing
QuizInvoke ==
    /\ op.pc = "invoke"
    /\ \/ op' = [op EXCEPT !.invokes = @ + 1, !.pc = "done", !.outcome = "ok"]
       \/ \E exc \in Failures :
            op' = AfterRaise([op EXCEPT !.invokes = @ + 1, !.last_failure = exc,
                                       !.failed_key = op.client_key], exc)
    /\ UNCHANGED <<keys, otherVars, poolVars, rotation_cooldown, now, call, rotation_count>>

\* get_embeddings, lines 95-97
EmbNoKey ==
    /\ op.pc = "get_embeddings"
    /\ get_current_key = NoKey
    /\ op' = [op EXCEPT !.no_key_errors = @ + 1, !.pc = "done", !.outcome = "ValueError"]
    /\ UNCHANGED <<keys, otherVars, poolVars, rotation_cooldown, now, call, rotation_count>>

\* get_embeddings, lines 99-103
EmbProbeOk ==
    /\ op.pc = "get_embeddings"
    /\ get_current_key # NoKey
    /\ op' = [op EXCEPT !.probes = @ + 1, !.pc = "done", !.outcome = "ok",
                        !.current_key = get_current_key, !.client_key = NotPassed]
    /\ UNCHANGED <<keys, otherVars, poolVars, rotation_cooldown, now, call, rotation_count>>

\* lines 104-111 once mark_failed has run with result m: the function calls
\* itself again, whatever the number of calls so far; the interpreter ends the
\* recursion with RecursionError
EmbAfterMark(o, m) ==
    IF m.raised # "none" THEN [o EXCEPT !.pc = "done", !.outcome = m.raised]
    ELSE IF o.depth + 1 >= RecursionLimit
         THEN [o EXCEPT !.pc = "done", !.outcome = "RecursionError"]
         ELSE [o EXCEPT !.depth = @ + 1]

\* get_embeddings, lines 104-111
EmbProbeFail ==
    /\ op.pc = "get_embeddings"
    /\ get_current_key # NoKey
    /\ \E exc \in Failures, t2 \in LaterTimes(now) :
        LET m == MarkFailedResult(get_current_key, exc = "ResourceExhausted",
                                  current_key_index, failed_keys, quota_exceeded_keys,
                                  last_rotation_time, now, t2)
            o == [op EXCEPT !.probes = @ + 1, !.last_failure = exc,
                            !.current_key = get_current_key,
                            !.client_key = NotPassed,
                            !.failed_key = NotPassed,
                            !.rotate_calls = IF m.rotate = "not called" THEN @ ELSE @ + 1,
                            !.rotations = IF m.rotate = "True" THEN @ + 1 ELSE @]
        IN  /\ failed_keys' = m.failed
            /\ quota_exceeded_keys' = m.quota
            /\ current_key_index' = m.index
            /\ last_rotation_time' = m.last
            /\ now' = m.time
            /\ op' = EmbAfterMark(o, m)
    /\ UNCHANGED <<keys, otherVars, rotation_cooldown, call, rotation_count>>

\* the methods of the manager called directly, in any order
ManagerNext ==
    \/ Tick
    \/ GetCurrentKey
    \/ RotateKey
    \/ MarkFailed

ManagerSpec == Init /\ [][ManagerNext]_vars

\* the wrappers called one after the other on the module-level key_manager,
\* as app.py calls them
Next ==
    \/ Tick
    \/ StartGetLlm
    \/ StartConversationalChain
    \/ StartGenerateQuiz
    \/ StartGetEmbeddings
    \/ LlmNoKey
    \/ LlmProbeOk
    \/ LlmProbeFail
    \/ ChainBuild
    \/ QuizInvoke
    \/ EmbNoKey
    \/ EmbProbeOk
    \/ EmbProbeFail

Spec == Init /\ [][Next]_vars

(* ----------------------- the whole life of the pool -------------------- *)

\* rotate_key and mark_failed called in any order as above, the rotations
\* counted in place of the record of the last call

LifeRotateKey ==
    /\ \E t2 \in LaterTimes(now) :
        LET r == RotateKeyResult(current_key_index, failed_keys, quota_exceeded_keys,
                                 last_rotation_time, now, t2)
        IN  /\ current_key_index' = r.index
            /\ last_rotation_time' = r.last
            /\ now' = r.time
            /\ rotation_count' = Counted(rotation_count, r.ret, TRUE)
    /\ UNCHANGED <<keys, otherVars, failed_keys, quota_exceeded_keys, rotation_cooldown,
                   call, op>>

LifeMarkFailed ==
    /\ \E key \in Credentials, is_quota_error \in BOOLEAN, t2 \in LaterTimes(now) :
        LET m == MarkFailedResult(key, is_quota_error, current_key_index, failed_keys,
                                  quota_exceeded_keys, last_rotation_time, now, t2)
        IN  /\ failed_keys' = m.failed
            /\ quota_exceeded_keys' = m.quota
            /\ current_key_index' = m.index
            /\ last_rotation_time' = m.last
            /\ now' = m.time
            /\ rotation_count' = Counted(rotation_count, m.rotate = "True", FALSE)
    /\ UNCHANGED <<keys, otherVars, rotation_cooldown, call, op>>

LifeNext ==
    \/ Tick
    \/ LifeRotateKey
    \/ LifeMarkFailed

LifeSpec == Init /\ [][LifeNext]_vars

(* ------------------- mark_failed called by several threads ------------- *)

\* The wrappers run in the threads of the sessions and share key_manager
\* (line 73); neither mark_failed nor rotate_key takes a lock, so the
\* statements of the callers interleave. One action is one statement; the
\* assignment of line 50 reads and writes current_key_index in two steps.

SetCaller(c, r) == callers' = [callers EXCEPT ![c] = r]

\* a wrapper's probe with the current credential has failed (lines 104-107,
\* 133-136): mark_failed(current_key, is_quota_error) is entered
Report(c) ==
    /\ callers[c].pc = "idle"
    /\ get_current_key # NoKey
    /\ \E q \in BOOLEAN :
        SetCaller(c, [callers[c] EXCEPT !.pc = "add", !.key = get_current_key,
                                        !.is_quota_error = q])
    /\ UNCHANGED <<keys, poolVars, rotation_cooldown, now, call, op, rotation_count,
                   session, rerun>>

\* lines 62-67
MfAdd(c) ==
    /\ callers[c].pc = "add"
    /\ LET me == callers[c] IN
        /\ failed_keys' = IF me.is_quota_error THEN failed_keys
                          ELSE failed_keys \cup {me.key}
        /\ quota_exceeded_keys' = IF me.is_quota_error
                                  THEN quota_exceeded_keys \cup {me.key}
                                  ELSE quota_exceeded_keys
        /\ IF LogRaises(me.key, me.is_quota_error)
           THEN SetCaller(c, [me EXCEPT !.pc = "done", !.raised = "IndexError"])
           ELSE SetCaller(c, [me EXCEPT !.pc = "check"])
    /\ UNCHANGED <<keys, current_key_index, last_rotation_time, rotation_cooldown, now,
                   call, op, rotation_count, session, rerun>>

\* line 69
MfCheck(c) ==
    /\ callers[c].pc = "check"
    /\ IF callers[c].key = get_current_key
       THEN SetCaller(c, [callers[c] EXCEPT !.pc = "guard"])
       ELSE SetCaller(c, [callers[c] EXCEPT !.pc = "done", !.ret = "not called"])
    /\ UNCHANGED <<keys, poolVars, rotation_cooldown, now, call, op, rotation_count,
                   session, rerun>>

\* rotate_key, lines 43-46
RkGuard(c) ==
    /\ callers[c].pc = "guard"
    /\ IF CooldownActive(now, last_rotation_time, rotation_cooldown)
       THEN SetCaller(c, [callers[c] EXCEPT !.pc = "done", !.ret = "False"])
       ELSE SetCaller(c, [callers[c] EXCEPT !.pc = "original"])
    /\ UNCHANGED <<keys, poolVars, rotation_cooldown, now, call, op, rotation_count,
                   session, rerun>>

\* line 48
RkOriginal(c) ==
    /\ callers[c].pc = "original"
    /\ SetCaller(c, [callers[c] EXCEPT !.pc = "load",
                                       !.original_index = current_key_index])
    /\ UNCHANGED <<keys, poolVars, rotation_cooldown, now, call, op, rotation_count,
                   session, rerun>>

\* line 50, the right-hand side
RkLoad(c) ==
    /\ callers[c].pc = "load"
    /\ SetCaller(c, [callers[c] EXCEPT !.pc = "store",
                         !.next_index = (current_key_index + 1) % Len(keys)])
    /\ UNCHANGED <<keys, poolVars, rotation_cooldown, now, call, op, rotation_count,
                   session, rerun>>

\* line 50, the assignment
RkStore(c) ==
    /\ callers[c].pc = "store"
    /\ current_key_index' = callers[c].next_index
    /\ SetCaller(c, [callers[c] EXCEPT !.pc = "wrapped"])
    /\ UNCHANGED <<keys, failed_keys, quota_exceeded_keys, last_rotation_time,
                   rotation_cooldown, now, call, op, rotation_count, session, rerun>>

\* lines 51-52
RkWrapped(c) ==
    /\ callers[c].pc = "wrapped"
    /\ IF current_key_index = callers[c].original_index
       THEN SetCaller(c, [callers[c] EXCEPT !.pc = "done", !.ret = "False"])
       ELSE SetCaller(c, [callers[c] EXCEPT !.pc = "eligible"])
    /\ UNCHANGED <<keys, poolVars, rotation_cooldown, now, call, op, rotation_count,
                   session, rerun>>

\* lines 54-56
RkEligible(c) ==
    /\ callers[c].pc = "eligible"
    /\ IF IsEligible(get_current_key, failed_keys, quota_exceeded_keys)
       THEN SetCaller(c, [callers[c] EXCEPT !.pc = "stamp"])
       ELSE SetCaller(c, [callers[c] EXCEPT !.pc = "load"])
    /\ UNCHANGED <<keys, poolVars, rotation_cooldown, now, call, op, rotation_count,
                   session, rerun>>

\* lines 57-58
RkStamp(c) ==
    /\ callers[c].pc = "stamp"
    /\ last_rotation_time' = now
    /\ SetCaller(c, [callers[c] EXCEPT !.pc = "done", !.ret = "True"])
    /\ UNCHANGED <<keys, current_key_index, failed_keys, quota_exceeded_keys,
                   rotation_cooldown, now, call, op, rotation_count, session, rerun>>

ConcNext ==
    \E c \in Callers :
        \/ Report(c)
        \/ MfAdd(c)
        \/ MfCheck(c)
        \/ RkGuard(c)
        \/ RkOriginal(c)
        \/ RkLoad(c)
        \/ RkStore(c)
        \/ RkWrapped(c)
        \/ RkEligible(c)
        \/ RkStamp(c)

ConcSpec == Init /\ [][ConcNext]_vars

(* --------------------------------- app.py ------------------------------ *)

\* mutant: the question is sent again although it is the last one answered
QuestionIsSentAgain(s, q) == q # NoQuestion /\ s.conversation /\ s.mode # "quiz"

\* lines 40-41 of main and line 9 of user_input: the conditions under which
\* st.session_state.conversation is called with the question
QuestionIsSent(s, q) ==
    /\ q # NoQuestion
    /\ s.conversation
    /\ s.mode # "quiz"
    /\ s.last_question # q

\* lines 40-42 and user_input: an exception of the chain call leaves main()
\* before the session is updated
HandleQuestion(s, q, chain_ok) ==
    LET sent == QuestionIsSent(s, q) IN
    [sent |-> sent,
     answered |-> sent /\ chain_ok,
     raised |-> sent /\ ~chain_ok,
     session |-> IF sent /\ chain_ok
                 THEN [s EXCEPT !.last_question = q, !.mode = "chat"]
                 ELSE s]

\* how "Submit & Process Documents" can end: get_pdf_text raises, a later step
\* (get_vector_store, get_conversational_chain) raises, or all succeed
ProcessOutcomes == {"pdf error", "index error", "ok"}

\* lines 56-68
SubmitDocuments(s, pdf_docs, has_text, outcome) ==
    IF ~pdf_docs \/ outcome = "pdf error" THEN s
    ELSE IF outcome = "index error" THEN [s EXCEPT !.raw_text = has_text]
    ELSE [s EXCEPT !.raw_text = has_text, !.conversation = TRUE, !.mode = "chat",
                   !.last_question = NoValue, !.quiz_generated = FALSE]

\* lines 71-83: the mode is set before generate_quiz is called
GenerateQuizClicked(s, quiz_ok) ==
    IF ~s.raw_text THEN s
    ELSE IF quiz_ok
         THEN [s EXCEPT !.mode = "quiz", !.quiz_generated = TRUE,
                        !.last_question = NoValue]
         ELSE [s EXCEPT !.mode = "quiz"]

\* what the run of main() leaves for the next one to compare with: the
\* question in the box and what was done with it, the session the run found,
\* whether "Generate Quiz" has set the mode since the documents were last
\* processed, and how often the question in the box has been answered while
\* it stayed there (in all, and since the documents were last processed)
Recorded(q, button, h, processed, quiz_set) ==
    LET same == q = rerun.question
        more(n) == LET m == (IF same THEN n ELSE 0) + (IF h.answered THEN 1 ELSE 0)
                   IN  IF m > MaxAnswers THEN MaxAnswers ELSE m
    IN  [question |-> q, button |-> button, sent |-> h.sent, answered |-> h.answered,
         processed |-> processed, before |-> session,
         quiz_pending_before |-> rerun.quiz_pending,
         quiz_pending |-> IF processed THEN FALSE
                          ELSE IF quiz_set THEN TRUE ELSE rerun.quiz_pending,
         answered_same |-> more(rerun.answered_same),
         answered_since_docs |-> IF processed THEN 0
                                 ELSE more(rerun.answered_since_docs)]

\* main() rerun by the text box or the file uploader, no button pressed
RerunInput ==
    /\ \E q \in Questions \cup {NoQuestion}, chain_ok \in BOOLEAN :
        LET h == HandleQuestion(session, q, chain_ok) IN
        /\ session' = h.session
        /\ rerun' = Recorded(q, "none", h, FALSE, FALSE)
    /\ UNCHANGED <<keys, poolVars, rotation_cooldown, now, call, op, rotation_count,
                   callers>>

\* main() rerun by "Submit & Process Documents"
RerunSubmit ==
    /\ \E q \in Questions \cup {NoQuestion}, chain_ok \in BOOLEAN, pdf_docs \in BOOLEAN,
          has_text \in BOOLEAN, outcome \in ProcessOutcomes :
        LET h == HandleQuestion(session, q, chain_ok)
            done == ~h.raised /\ pdf_docs /\ outcome = "ok"
        IN  /\ session' = IF h.raised THEN h.session
                          ELSE SubmitDocuments(h.session, pdf_docs, has_text, outcome)
            /\ rerun' = Recorded(q, "submit", h, done, FALSE)
    /\ UNCHANGED <<keys, poolVars, rotation_cooldown, now, call, op, rotation_count,
                   callers>>

\* main() rerun by "Generate Quiz"
RerunQuiz ==
    /\ \E q \in Questions \cup {NoQuestion}, chain_ok \in BOOLEAN, quiz_ok \in BOOLEAN :
        LET h == HandleQuestion(session, q, chain_ok)
            s2 == IF h.raised THEN h.session ELSE GenerateQuizClicked(h.session, quiz_ok)
        IN  /\ session' = s2
            /\ rerun' = Recorded(q, "quiz", h, FALSE,
                                 ~h.raised /\ h.session.raw_text)
    /\ UNCHANGED <<keys, poolVars, rotation_cooldown, now, call, op, rotation_count,
                   callers>>

AppNext ==
    \/ RerunInput
    \/ RerunSubmit
    \/ RerunQuiz

AppSpec == Init /\ [][AppNext]_vars

(* ------------------------------- claims -------------------------------- *)

Done == op.pc = "done"

\* every attempt of the operation made a probe call, and every probe failed
EveryProbeFailed == op.probes >= 1 /\ op.no_key_errors = 0 /\ op.outcome # "ok"

\* C1: a get_llm(max_retries = N) call whose probe fails on every attempt makes
\* at most N + 1 probe attempts and ends by propagating the last probe failure.
C1_LastFailurePropagates ==
    (op.name = "get_llm" /\ EveryProbeFailed)
        => /\ op.probes <= op.budget + 1
           /\ Done => op.outcome = op.last_failure

\* C2: a get_embeddings call whose probe fails on every attempt makes at most
\* (default retry budget + 1) probe attempts.
C2_EmbeddingsBounded ==
    (op.name = "get_embeddings" /\ EveryProbeFailed)
        => op.probes <= DEFAULT_MAX_RETRIES + 1

\* C3: a wrapper called with max_retries = 0 whose downstream call fails has
\* made exactly one probe call when it ends in failure.
C3_ZeroRetriesOneAttempt ==
    (/\ op.name \in {"get_llm", "get_conversational_chain", "generate_quiz"}
     /\ op.budget = 0
     /\ Done
     /\ op.last_failure # "none"
     /\ op.outcome \notin {"ok", "ValueError"})
        => op.probes = 1

\* C4: whenever rotate_key returns True (called directly or by mark_failed),
\* the credential at the new current_key_index is in neither failed_keys nor
\* quota_exceeded_keys.
C4_RotateSelectsEligible ==
    (\/ call.name = "rotate_key" /\ call.ret
     \/ call.name = "mark_failed" /\ call.rotate = "True")
        => /\ get_current_key \notin failed_keys
           /\ get_current_key \notin quota_exceeded_keys

\* a successful rotation that passed over an excluded credential
C4_Witness ==
    /\ call.name = "rotate_key"
    /\ call.ret
    /\ Len(keys) = NUM_KEYS
    /\ current_key_index = (call.from + 2) % NUM_KEYS
    /\ keys[((call.from + 1) % NUM_KEYS) + 1] \in failed_keys \cup quota_exceeded_keys

\* C5: when every entry of keys is excluded, rotate_key returns False and
\* leaves current_key_index and last_rotation_time as they were, and so does
\* the rotate_key call that follows it.
C5_ExhaustedRotateIsNoOp ==
    (/\ call.name = "rotate_key"
     /\ \/ call.exhausted
        \/ call.prev.name = "rotate_key" /\ call.prev.exhausted)
        => ~call.ret /\ ~call.moved

\* two rotate_key calls in a row on an exhausted pool of three, the second
\* one scanning (no cooldown in force)
C5_Witness ==
    /\ call.name = "rotate_key"
    /\ call.exhausted
    /\ call.prev.name = "rotate_key"
    /\ call.prev.exhausted
    /\ Len(keys) = NUM_KEYS
    /\ ~CooldownActive(call.time, last_rotation_time, rotation_cooldown)
    /\ ~call.ret

\* the two last calls are rotate_key calls less than rotation_cooldown apart
RotateTwiceWithinCooldown ==
    /\ call.name = "rotate_key"
    /\ call.prev.name = "rotate_key"
    /\ call.time - call.prev.time < rotation_cooldown

\* C6 as stated: of two consecutive rotate_key calls less than
\* rotation_cooldown apart, the second returns False whatever the first returned.
C6_SecondRotateRefused == RotateTwiceWithinCooldown => ~call.ret

\* C6 as amended: of two consecutive rotate_key calls less than
\* rotation_cooldown apart, the second returns False when the first returned True.
C6_RotateAfterSuccessRefused ==
    (RotateTwiceWithinCooldown /\ call.prev.ret) => ~call.ret

\* a rotation refused by the cooldown alone: an eligible credential was there
C6_Witness ==
    /\ RotateTwiceWithinCooldown
    /\ call.prev.ret
    /\ ~call.exhausted
    /\ ~call.ret

\* some entry of keys is in neither exclusion set
HealthyRemains ==
    \E i \in 1..Len(keys) : keys[i] \notin failed_keys \cup quota_exceeded_keys

\* get_current_key was called right after mark_failed(current key, True)
GetAfterQuotaMark ==
    /\ call.name = "get_current_key"
    /\ call.prev.name = "mark_failed"
    /\ call.prev.is_quota_error
    /\ call.prev.current

\* C7 as stated: with a healthy entry left, mark_failed(current, True) followed
\* by get_current_key once the cooldown has elapsed returns another credential.
C7_GetAfterCooldownDiffers ==
    (/\ GetAfterQuotaMark
     /\ HealthyRemains
     /\ ~CooldownActive(call.time, last_rotation_time, rotation_cooldown))
        => call.ret_key # call.prev.key

\* C7 as amended: with a healthy entry left and the cooldown elapsed when
\* mark_failed(current, True) is called, the get_current_key that follows
\* returns a value other than the marked credential.
C7_MarkAfterCooldownRotates ==
    (GetAfterQuotaMark /\ HealthyRemains /\ ~call.prev.cooldown)
        => call.ret_key # call.prev.key

\* the marking rotated onto another credential of the pool
C7_Witness ==
    /\ GetAfterQuotaMark
    /\ HealthyRemains
    /\ ~call.prev.cooldown
    /\ call.prev.rotate = "True"
    /\ call.ret_key \in Credentials \ {call.prev.key}

\* the results of the probes of the get_llm call, in order
Results == [i \in 1..Len(op.trace) |-> op.trace[i].result]

\* get_llm called on a pool of three distinct credentials, with
\* rotation_cooldown = 0, no credential marked yet, and retries enough for
\* three attempts
ThreeKeyScenario ==
    /\ op.name = "get_llm"
    /\ op.fresh
    /\ op.budget >= 2
    /\ rotation_cooldown = 0
    /\ Len(keys) = NUM_KEYS
    /\ \A i \in 1..NUM_KEYS : keys[i] \in Credentials
    /\ \A i, j \in 1..NUM_KEYS : keys[i] = keys[j] => i = j

\* C8: with pool [K1, K2, K3] and rotation_cooldown = 0, the call goes on to K2
\* after K1's quota error, on to K3 after K2's generic error, and when K3's
\* probe succeeds it returns with failed_keys = {K2}, quota_exceeded_keys =
\* {K1} and current_key_index at K3.
C8_ThreeKeyScenario ==
    ThreeKeyScenario =>
        /\ Results = <<"ResourceExhausted">>
            => /\ op.trace[1].key = keys[1]
               /\ op.pc = "get_llm"
               /\ current_key_index = 1
        /\ Results = <<"ResourceExhausted", "Exception">>
            => /\ op.trace[2].key = keys[2]
               /\ op.pc = "get_llm"
               /\ current_key_index = 2
        /\ Results = <<"ResourceExhausted", "Exception", "ok">>
            => /\ op.trace[3].key = keys[3]
               /\ Done /\ op.outcome = "ok"
               /\ failed_keys = {keys[2]}
               /\ quota_exceeded_keys = {keys[1]}
               /\ current_key_index = 2

\* C9: with a pool of the single credential K1 whose probe always fails, every
\* failure attempts a rotation, none succeeds, current_key_index stays on K1,
\* every attempt uses K1, and the call ends in the last failure after
\* max_retries + 1 attempts.
C9_SingleKeyExhaustsBudget ==
    (/\ op.name = "get_llm"
     /\ Len(keys) = 1
     /\ keys[1] \in Credentials
     /\ EveryProbeFailed)
        => /\ current_key_index = 0
           /\ \A i \in 1..Len(op.trace) : op.trace[i].key = keys[1]
           /\ op.rotate_calls = op.probes
           /\ op.rotations = 0
           /\ Done => op.probes = op.budget + 1 /\ op.outcome = op.last_failure

\* C10: once an attempt has found no credential, the operation has ended with
\* the "no credentials" error (ValueError) and is not tried again.
C10_NoKeyIsTerminal ==
    (/\ op.name \in {"get_llm", "get_conversational_chain", "generate_quiz"}
     /\ op.no_key_errors >= 1)
        => Done /\ op.outcome = "ValueError" /\ op.llm_calls = 1

\* C11: after any sequence of get_current_key, rotate_key and mark_failed
\* calls, current_key_index is a position of keys.
C11_IndexInRange == current_key_index \in 0..(Len(keys) - 1)

\* a rotation that wrapped from the last position to the first
C11_Witness ==
    /\ call.name = "rotate_key"
    /\ call.ret
    /\ call.from = NUM_KEYS - 1
    /\ current_key_index = 0

\* a step that is a call of the manager method `name`
IsCallOf(name) == call'.name = name /\ call' # call

\* C12: get_current_key returns the entry of keys at current_key_index and
\* leaves current_key_index, failed_keys, quota_exceeded_keys and
\* last_rotation_time as they are; on the pool as constructed it returns
\* the first entry.
C12_GetCurrentKeyIsPure ==
    [][IsCallOf("get_current_key")
        => /\ call'.ret_key = keys[current_key_index + 1]
           /\ UNCHANGED poolVars
           /\ (current_key_index = 0 => call'.ret_key = keys[1])]_vars

\* get_current_key called after a rotation: it returns a later entry
C12_Witness ==
    /\ call.name = "get_current_key"
    /\ current_key_index > 0
    /\ call.ret_key = keys[current_key_index + 1]
    /\ call.ret_key # keys[1]

\* C15: mark_failed(key, is_quota_error) adds key to quota_exceeded_keys when
\* is_quota_error holds and to failed_keys otherwise, and leaves the other set
\* as it is; when key is not the current credential rotate_key is not called
\* and current_key_index and last_rotation_time stay as they are.
C15_MarkFailedFrame ==
    [][IsCallOf("mark_failed")
        => /\ call'.is_quota_error
                => /\ quota_exceeded_keys' = quota_exceeded_keys \cup {call'.key}
                   /\ failed_keys' = failed_keys
           /\ ~call'.is_quota_error
                => /\ failed_keys' = failed_keys \cup {call'.key}
                   /\ quota_exceeded_keys' = quota_exceeded_keys
           /\ call'.key # keys[current_key_index + 1]
                => /\ call'.rotate = "not called"
                   /\ current_key_index' = current_key_index
                   /\ last_rotation_time' = last_rotation_time]_vars

\* a credential other than the current one marked as failed, with another
\* credential to rotate to
C15_Witness ==
    /\ call.name = "mark_failed"
    /\ ~call.current
    /\ ~call.is_quota_error
    /\ call.raised = "none"
    /\ call.key \in failed_keys \ quota_exceeded_keys
    /\ get_current_key \in Credentials \ (failed_keys \cup quota_exceeded_keys)

\* C17: mark_failed and rotate_key never raise, whatever the credential and
\* the pool state.
C17_ManagerNeverRaises == call.name = "mark_failed" => call.raised = "none"

\* the rotation of this step returned True
RotationSucceeds ==
    \/ IsCallOf("rotate_key") /\ call'.ret
    \/ IsCallOf("mark_failed") /\ call'.rotate = "True"

\* C18: last_rotation_time changes only in a rotate_key call that returns
\* True, and then by at least rotation_cooldown; a refused or exhausted
\* rotation leaves it as it is.
C18_StampOnlyOnSuccess ==
    [][last_rotation_time' # last_rotation_time
        => /\ RotationSucceeds
           /\ last_rotation_time' - last_rotation_time >= rotation_cooldown]_vars

\* a second successful rotation, one cooldown after the first
C18_Witness ==
    /\ rotation_cooldown = ROTATION_COOLDOWN
    /\ call.name = "rotate_key"
    /\ call.ret
    /\ call.from = 1
    /\ last_rotation_time >= StartTime + ROTATION_COOLDOWN

\* C13: after a failed provider call inside a wrapper, the credential the
\* call was made with is in quota_exceeded_keys if the failure was a quota
\* error and in failed_keys otherwise, the real request of generate_quiz
\* included.
C13_EveryFailureMarked ==
    /\ op.last_failure = "ResourceExhausted" => op.failed_key \in quota_exceeded_keys
    /\ op.last_failure = "Exception" => op.failed_key \in failed_keys

\* C14: in every attempt of a wrapper the provider client is constructed and
\* probed with the credential get_current_key returned, in get_embeddings as
\* in get_llm.
C14_ClientUsesCurrentKey == op.probes > 0 => op.client_key = op.current_key

\* the exclusion sets only grow, and a rotation that returns True selects an
\* entry that is in neither of them
ExcludedStaysExcluded ==
    /\ failed_keys \subseteq failed_keys'
    /\ quota_exceeded_keys \subseteq quota_exceeded_keys'
    /\ rotation_count'.rotated
        => keys[current_key_index' + 1] \notin (failed_keys' \cup quota_exceeded_keys')

\* C19 as stated: failed_keys and quota_exceeded_keys only grow, a marked
\* credential the rotation has left is not selected again, and the number of
\* successful rotations since construction is at most the number of keys
\* minus one.
C19_RotationsBounded ==
    [][/\ ExcludedStaysExcluded
       /\ rotation_count'.total <= Len(keys) - 1]_vars

\* C19 amended: the same, the bound on the number of successful rotations
\* holding as long as every one of them was made by mark_failed.
C19_MarkRotationsBounded ==
    [][/\ ExcludedStaysExcluded
       /\ ~rotation_count'.direct => rotation_count'.total <= Len(keys) - 1]_vars

\* mark_failed has rotated a pool of three keys for the second time, and no
\* rotation was called from elsewhere
C19_Witness ==
    /\ rotation_count.rotated
    /\ ~rotation_count.direct
    /\ rotation_count.total = Len(keys) - 1
    /\ Len(keys) = NUM_KEYS

\* every caller has reported the credential that was current at construction
\* and has left mark_failed
AllReportedFirst ==
    \A c \in Callers : callers[c].pc = "done" /\ callers[c].key = keys[1]

\* C16: when several callers report the same active credential as failed
\* within one cooldown window, at most one rotation takes effect and
\* current_key_index ends at the first healthy entry after the reported one
\* (where it was, when no rotation took effect), under every interleaving.
C16_OneRotationTakesEffect ==
    (rotation_cooldown > 0 /\ AllReportedFirst)
        => LET won == {c \in Callers : callers[c].ret = "True"}
               first == ScanFrom(0, 0, failed_keys, quota_exceeded_keys)
           IN  /\ Cardinality(won) <= 1
               /\ current_key_index = IF won # {} THEN first.index ELSE 0

\* a question reaches the chain only when a conversation exists, the mode is
\* not "quiz" and the question is not last_question; none does between
\* "Generate Quiz" setting the mode and the next processing of documents
SentOnlyWhenAllowed ==
    rerun.sent
        => /\ rerun.before.conversation
           /\ rerun.before.mode # "quiz"
           /\ rerun.question # rerun.before.last_question
           /\ ~rerun.quiz_pending_before

\* C20 as stated: a question is sent to the chain only under these
\* conditions, and a question that stays in the box over consecutive reruns
\* is answered once.
C20_SameQuestionOnce == SentOnlyWhenAllowed /\ rerun.answered_same <= 1

\* C20 amended: a question is sent to the chain only under these conditions,
\* and a question that stays in the box over consecutive reruns is answered
\* once between two processings of documents.
C20_SameQuestionOncePerProcessing ==
    SentOnlyWhenAllowed /\ rerun.answered_since_docs <= 1

\* the question answered in an earlier run is still in the box and is not
\* sent again
C20_Witness ==
    /\ rerun.question \in Questions
    /\ rerun.before.conversation
    /\ rerun.before.mode = "chat"
    /\ rerun.before.last_question = rerun.question
    /\ rerun.answered_same = 1
    /\ ~rerun.sent

====
